---- MODULE Spec2Model ----
(***************************************************************************)
(* Model of the product importer: ProductService.importProducts with its  *)
(* 'data' and 'end' stream handlers, transformRow, upsertBatch,           *)
(* handleDeletions, the two reference resolvers (VendorService,           *)
(* ManufacturerService) and the ImportController trigger.                 *)
(*                                                                         *)
(* Every `await` of the source is a scheduling point: an action of the    *)
(* model runs one handler from one await to the next (the awaits inside   *)
(* enhanceDescription, which touch no shared state, are one step).        *)
(*                                                                         *)
(* Strings of the id space are modelled by integers: the decimal string   *)
(* of a natural key n is n, and a nanoid() string is a number >= 1000,    *)
(* which no decimal string of a key of the feed equals.  The csv parser   *)
(* is modelled by its output: the rows it emits, chunk by chunk.          *)
(*                                                                         *)
(* DescriptionEnhancerService.enhanceDescription and the variant that     *)
(* transformRow computes from a row are also modelled alone, on texts     *)
(* that are sequences of characters (SpecEnhancer, SpecTransformer).      *)
(***************************************************************************)
EXTENDS Integers, Sequences, FiniteSets, TLC

\* ---------------------------------------------------------------- bounds
MaxRows == 2        \* longest feed (rows of one input file)
MaxFaults == 1      \* database operations that fail

\* product.service.ts:53 sets batchSize = 1000; scaled down so that a feed
\* of MaxRows rows reaches the threshold.
batchSize == 2

\* ------------------------------------------------------------ input rows
\* The columns of a row that the orchestrator and the resolvers read.
Row(mid, mname, pname) ==
    [ManufacturerID |-> mid, ManufacturerName |-> mname, ProductName |-> pname]

Rows == { Row(77, "Acme", "Gauze"),
          Row(77, "Acme", "Tape"),
          Row(77, "", "Gauze"),
          Row(77, "Acme", "") }

RECURSIVE SeqsUpTo(_, _)
SeqsUpTo(S, n) ==
    IF n = 0 THEN { <<>> }
    ELSE LET shorter == SeqsUpTo(S, n - 1)
         IN  shorter \cup { Append(s, x) : s \in shorter, x \in S }

Feeds == SeqsUpTo(Rows, MaxRows)

\* ------------------------------------------------------- pure operations
\* JavaScript truthiness of a configuration string ("unset" is undefined).
Truthy(v) == v \notin {"unset", ""}

\* manufacturerId.toString(): the decimal string of the key (see header).
toString(n) == n

\* nanoid(): a fresh opaque id; kind 1 = docId, 2 = vendor, 3 = manufacturer.
nanoid(r, i, kind) == 1000 + r * 100 + i * 10 + kind

\* Model.findOne({<idField>: key}): the records whose stored id equals key.
findOne(coll, key) == { rec \in coll : rec.id = key }

\* ------------------------------------------------------------------ text
\* A string whose characters matter is the sequence of its characters; the
\* JavaScript value undefined is a value that is no such sequence.
undefined == << "undefined" >>

Whitespace == {" "}

\* v || '' for a string or undefined v
OrEmpty(v) == IF v = undefined \/ v = <<>> THEN <<>> ELSE v

RECURSIVE trimStart(_)
trimStart(s) ==
    IF s # <<>> /\ Head(s) \in Whitespace THEN trimStart(Tail(s)) ELSE s

RECURSIVE trimEnd(_)
trimEnd(s) ==
    IF s # <<>> /\ s[Len(s)] \in Whitespace
    THEN trimEnd(SubSeq(s, 1, Len(s) - 1)) ELSE s

\* String.prototype.trim
trim(s) == trimEnd(trimStart(s))

\* ------------------------------------------------- description enhancer
Soft == << "S", "o", "f", "t" >>

\* the description column of a row: absent, empty, blank, or a text
Descriptions == { undefined, <<>>, << " " >>, Soft }

\* texts of a choice of the completion service (undefined: no text field)
ChoiceTexts == { undefined, <<>>, << " ", "N", "e", "w", " " >>, << "N", "e", "w" >> }

\* What createCompletion gives: it throws, or a response without data,
\* without choices, or with a list of choices.
Response(threw, data, choices, items) ==
    [threw |-> threw, data |-> data, choices |-> choices, items |-> items]

Responses ==
    { Response(TRUE, FALSE, FALSE, <<>>),
      Response(FALSE, FALSE, FALSE, <<>>),
      Response(FALSE, TRUE, FALSE, <<>>),
      Response(FALSE, TRUE, TRUE, <<>>) }
    \cup { Response(FALSE, TRUE, TRUE, << [text |-> t] >>) : t \in ChoiceTexts }

\* DescriptionEnhancerService.constructPrompt, 104-118: the prompt, by the
\* parts embedded in it (the description only when it is not blank).
constructPrompt(name, category, description) ==
    [name |-> name, category |-> category,
     description |-> IF description # undefined /\ trim(description) # <<>>
                     THEN description ELSE <<>>]

Returned(v) == [raised |-> FALSE, value |-> v]

enhancedDescription_blank(response, description) ==
    IF /\ ~response.threw
       /\ response.data /\ response.choices /\ Len(response.items) > 0
       /\ response.items[1].text # undefined
    THEN Returned(trim(response.items[1].text))
    ELSE Returned(<<>>)

\* enhanceDescription, 69-94: what the invocation returns for a response of
\* the service.  A choice without text makes trim() throw inside the try,
\* which the catch of 88 turns into the fallback.
enhancedDescription(response, description) ==
    IF response.threw
    THEN Returned(OrEmpty(description))
    ELSE IF response.data /\ response.choices /\ Len(response.items) > 0
         THEN IF response.items[1].text = undefined
              THEN Returned(OrEmpty(description))
              ELSE Returned(trim(response.items[1].text))
         ELSE Returned(OrEmpty(description))

removeTokens_rethrown(limiterError) ==
    IF limiterError THEN "raised" ELSE "completion"

\* enhanceDescription, 49-54: the await of removeTokens is in a try whose
\* catch only logs, so the invocation goes on to the completion call.
removeTokens(limiterError) == "completion"

EnhIdle ==
    [pc |-> "idle", name |-> "", category |-> "", description |-> undefined,
     limiterError |-> FALSE, prompt |-> constructPrompt("", "", undefined),
     calls |-> 0, response |-> Response(FALSE, FALSE, FALSE, <<>>),
     ret |-> Returned(<<>>)]

\* ------------------------------------------------------ row transformer
\* A number is a decimal num / 10^scale, or NaN.  The rounding of IEEE
\* doubles is not modelled.
Num(n, k) == [nan |-> FALSE, num |-> n, scale |-> k]

NaN == [nan |-> TRUE, num |-> 0, scale |-> 0]

RECURSIVE Pow10(_)
Pow10(k) == IF k = 0 THEN 1 ELSE 10 * Pow10(k - 1)

NumEq(a, b) ==
    /\ ~a.nan /\ ~b.nan
    /\ a.num * Pow10(b.scale) = b.num * Pow10(a.scale)

DigitChars == << "0", "1", "2", "3", "4", "5", "6", "7", "8", "9" >>

IsDigit(c) == \E n \in 1..10 : DigitChars[n] = c

DigitVal(c) == (CHOOSE n \in 1..10 : DigitChars[n] = c) - 1

RECURSIVE digitsPrefix(_)
digitsPrefix(s) ==
    IF s # <<>> /\ IsDigit(Head(s))
    THEN << Head(s) >> \o digitsPrefix(Tail(s)) ELSE <<>>

RECURSIVE digitsValue(_)
digitsValue(d) ==
    IF d = <<>> THEN 0
    ELSE 10 * digitsValue(SubSeq(d, 1, Len(d) - 1)) + DigitVal(d[Len(d)])

\* parseFloat: leading white space is skipped, then the longest prefix that
\* is a decimal literal (sign, digits, fraction) is the value; NaN when there
\* is none.  undefined is parsed as the string "undefined".  No input of the
\* model has an exponent or is "Infinity".
parseFloat(v) ==
    IF v = undefined THEN NaN
    ELSE LET s == trimStart(v)
             signed == s # <<>> /\ Head(s) \in {"-", "+"}
             neg == s # <<>> /\ Head(s) = "-"
             t == IF signed THEN Tail(s) ELSE s
             int == digitsPrefix(t)
             rest == SubSeq(t, Len(int) + 1, Len(t))
             frac == IF rest # <<>> /\ Head(rest) = "."
                     THEN digitsPrefix(Tail(rest)) ELSE <<>>
         IN  IF int = <<>> /\ frac = <<>> THEN NaN
             ELSE Num((IF neg THEN -1 ELSE 1) * digitsValue(int \o frac),
                      Len(frac))

\* x || 0 for a number x: NaN and 0 are falsy
OrZero(x) == IF x.nan \/ x.num = 0 THEN Num(0, 0) ELSE x

markedUp_none(x) == x

\* x * 1.2 (152)
markedUp(x) == IF x.nan THEN NaN ELSE Num(x.num * 12, x.scale + 1)

\* `${v}` in a template literal
String(v) == IF v = undefined
             THEN << "u", "n", "d", "e", "f", "i", "n", "e", "d" >> ELSE v

Available == << "A", "v", "a", "i", "l", "a", "b", "l", "e" >>

\* transformRow, 138-165: the variants of the draft (the fields that are
\* computed from the row; the generated id, the images and the texts copied
\* as they are, are left out).
variants(row) ==
    << [available |-> (row.Availability = Available),
        cost |-> OrZero(parseFloat(row.UnitPrice)),
        currency |-> "USD",
        price |-> OrZero(markedUp(parseFloat(row.UnitPrice))),
        sku |-> String(row.ManufacturerItemCode) \o String(row.PKG),
        active |-> TRUE] >>

\* The unit prices of the rows, each with the number written in it, in
\* thousandths (price: that number with the markup of 20%), or "none" when
\* it starts with no number.
PriceCase(text, numeric, cost, price) ==
    [text |-> text, numeric |-> numeric, cost |-> cost, price |-> price]

PriceCases ==
    { PriceCase(<< "2", ".", "5", "0" >>, TRUE, 2500, 3000),
      PriceCase(<< "1", "0" >>, TRUE, 10000, 12000),
      PriceCase(<< "0" >>, TRUE, 0, 0),
      PriceCase(<< ".", "5" >>, TRUE, 500, 600),
      PriceCase(<< " ", "3" >>, TRUE, 3000, 3600),
      PriceCase(<< "0", ".", "0", "5" >>, TRUE, 50, 60),
      PriceCase(<< "2", "x" >>, TRUE, 2000, 2400),
      PriceCase(<< "a", "b", "c" >>, FALSE, 0, 0),
      PriceCase(<< "$", "2" >>, FALSE, 0, 0),
      PriceCase(<<>>, FALSE, 0, 0),
      PriceCase(undefined, FALSE, 0, 0) }

GZ1 == << "G", "Z", "1" >>

BX == << "B", "X" >>

\* The columns of a row that the variant is computed from; the row has a
\* manufacturer name and a product name.
VariantRow(price, pkg, code, availability) ==
    [ManufacturerName |-> "Acme", ProductName |-> "Gauze",
     UnitPrice |-> price, PKG |-> pkg, ManufacturerItemCode |-> code,
     Availability |-> availability]

VariantRows ==
    { VariantRow(c.text, pkg, code, availability) :
        c \in PriceCases,
        pkg \in { BX, <<>>, undefined },
        code \in { GZ1, <<>>, undefined },
        availability \in { Available, Available \o << " " >>,
                           << "O", "u", "t" >>, undefined } }

NoDraft ==
    [done |-> FALSE, row |-> VariantRow(undefined, undefined, undefined, undefined),
     variants |-> <<>>]

VARIABLES
    deleteFlag,         \* ProductService.deleteFlag
    file,               \* the input file: [exists, rows]
    products,           \* products collection
    vendors,            \* vendors collection: records [id, name]
    manufacturers,      \* manufacturers collection: records [id, name]
    schedule,           \* POST /import requests still to come
    run,                \* number of import runs triggered so far
    state,              \* orchestrator: Idle, Streaming, Flushing, Finding, Reconciling, Completed
    feed,               \* rows of the stream of the current run
    pos,                \* rows emitted by the parser so far
    flowing,            \* readStream is flowing (not paused)
    pc,                 \* per row: position of its 'data' handler
    loc,                \* per row: locals of transformRow
    batch,              \* let batch
    importedProductIds, \* const importedProductIds
    ops,                \* bulkOps of pending upsertBatch calls, per caller (0: 'end')
    nin,                \* Array.from(importedProductIds) given to find()
    productsToDelete,   \* documents found by handleDeletions, not yet visited
    ack,                \* POST /import has returned its acknowledgement
    faults,             \* database operations that have failed so far
    \* history (not read by the program)
    result,             \* per row: outcome of its handler
    flushed,            \* docIds passed to a bulk upsert in this run
    flagged,            \* names flagged deleted by this run's reconciliation
    reconciled,         \* this run's reconciliation went through without error
    startDb,            \* the three collections when the run was triggered
    log,                \* resolver calls of this run that have returned
    rejected,           \* docIds carried by a bulk write of this run that failed
    \* the row transformer and the description enhancer, taken alone
    enh,                \* enhanceDescription: the invocation and its position
    drafted             \* transformRow: a row and the variants built from it

vars == << deleteFlag, file, products, vendors, manufacturers,
           schedule, run, state, feed, pos, flowing, pc, loc, batch,
           importedProductIds, ops, nin, productsToDelete, ack, faults, result,
           flushed, flagged, reconciled, startDb, log, rejected, enh,
           drafted >>

\* The handlers of a run, one per row of its feed: a feed has at most
\* MaxRows rows, or, where the batch is studied, one row more than the
\* threshold.
MaxFeed == IF MaxRows > batchSize THEN MaxRows ELSE batchSize + 1

RowIdx == 1..MaxFeed
NoLoc == [vendorId |-> 0, manufacturerId |-> 0, seen |-> FALSE]

\* A database left by an earlier import of the one-row feed "Gauze": the
\* product (flagged deleted by a later reconciliation, or not) and the vendor
\* and manufacturer records minted for its row.
StoredGauze(deleted) ==
    [products |-> { [_id |-> nanoid(0, 1, 1), docId |-> nanoid(0, 1, 1),
                     name |-> "Gauze", vendorId |-> nanoid(0, 1, 2),
                     manufacturerId |-> nanoid(0, 1, 3), isDeleted |-> deleted] },
     vendors |-> { [id |-> nanoid(0, 1, 2), name |-> "Acme"] },
     manufacturers |-> { [id |-> nanoid(0, 1, 3), name |-> "Acme"] }]

EmptyDb == [products |-> {}, vendors |-> {}, manufacturers |-> {}]

Files == { [exists |-> TRUE, rows |-> f] : f \in Feeds }
            \cup { [exists |-> FALSE, rows |-> <<>>] }

\* files whose rows carry the natural key of the stored records, 77, under
\* another manufacturer name
RenamedFiles ==
    { [exists |-> TRUE, rows |-> f] :
        f \in SeqsUpTo({ Row(77, "Apex", "Gauze"), Row(77, "Apex", "Tape") },
                       MaxRows) }

\* files in which a row is whole, or lacks the manufacturer name, or lacks
\* the product name
SkipFiles ==
    { [exists |-> TRUE, rows |-> f] :
        f \in SeqsUpTo({ Row(77, "Acme", "Tape"), Row(77, "", "Gauze"),
                         Row(77, "Acme", "") }, MaxRows) }

\* files of batchSize + 1 rows, each with a manufacturer and a product name
LongFiles ==
    { [exists |-> TRUE, rows |-> f] :
        f \in [1..(batchSize + 1) -> { Row(77, "Acme", "Gauze"),
                                       Row(77, "Acme", "Tape") }] }

\* values of DELETE_FLAG in the environment ("unset": not defined)
Env == {"unset", "true", "false"}

\* ProductService constructor (product.service.ts:19-27): deleteFlag is the
\* DELETE_FLAG of the environment, or false when that is falsy; no run yet.
\* No invocation of the enhancer or of the transformer is under way.
InitWith(db, requests, env, files) ==
    /\ \E DELETE_FLAG \in env : deleteFlag = Truthy(DELETE_FLAG)
    /\ file \in files
    /\ products = db.products
    /\ vendors = db.vendors
    /\ manufacturers = db.manufacturers
    /\ schedule = requests
    /\ run = 0
    /\ state = "Idle"
    /\ feed = <<>>
    /\ pos = 0
    /\ flowing = FALSE
    /\ pc = [i \in RowIdx |-> "wait"]
    /\ loc = [i \in RowIdx |-> NoLoc]
    /\ batch = <<>>
    /\ importedProductIds = {}
    /\ ops = [c \in RowIdx \cup {0} |-> <<>>]
    /\ nin = {}
    /\ productsToDelete = {}
    /\ ack = FALSE
    /\ faults = 0
    /\ result = [i \in RowIdx |-> "none"]
    /\ flushed = {}
    /\ flagged = {}
    /\ reconciled = FALSE
    /\ startDb = db
    /\ log = {}
    /\ rejected = {}
    /\ enh = EnhIdle
    /\ drafted = NoDraft

InitService(db, requests) == InitWith(db, requests, Env, Files)

\* The service starts on a database that holds one earlier import, and one
\* request comes in.
Init == \E deleted \in BOOLEAN : InitService(StoredGauze(deleted), 1)

\* The service starts on an empty database, and two requests come in, one
\* after the other, for the same file.
InitRerun == InitService(EmptyDb, 2)

\* ------------------------------------------------------ stored documents
\* updateOne({filter: {'data.name': name}, update: {$set: product}, upsert: true}):
\* $set replaces docId and the whole data sub-document (isDeleted is absent
\* from the draft, so it is gone afterwards); an insert gets a new _id.
updateOneUpsert(coll, d) ==
    IF \E p \in coll : p.name = d.name
    THEN LET p == CHOOSE q \in coll : q.name = d.name
         IN  (coll \ {p}) \cup
             { [_id |-> p._id, docId |-> d.docId, name |-> d.name,
                vendorId |-> d.vendorId, manufacturerId |-> d.manufacturerId,
                isDeleted |-> FALSE] }
    ELSE coll \cup
             { [_id |-> d.docId, docId |-> d.docId, name |-> d.name,
                vendorId |-> d.vendorId, manufacturerId |-> d.manufacturerId,
                isDeleted |-> FALSE] }

\* productModel.bulkWrite(bulkOps, {ordered: false}): the items of `applied`
\* take effect, the others fail without blocking their siblings.
RECURSIVE bulkWrite(_, _, _, _)
bulkWrite(coll, bulkOps, applied, k) ==
    IF k > Len(bulkOps) THEN coll
    ELSE bulkWrite(IF k \in applied THEN updateOneUpsert(coll, bulkOps[k]) ELSE coll,
                   bulkOps, applied, k + 1)

\* ProductService.checkExistingOrders: the stub.
checkExistingOrders(productId) == FALSE

saveDeleted_removed(coll, id) == { p \in coll : p._id # id }

\* product.data.isDeleted = true; product.save(): the stored document with
\* this _id gets the flag.
saveDeleted(coll, id) ==
    { IF p._id = id THEN [p EXCEPT !.isDeleted = TRUE] ELSE p : p \in coll }

docIds(b) == { b[k].docId : k \in 1..Len(b) }

\* a call for this natural key has returned before
seenBefore(svc, key) == \E c \in log : c.svc = svc /\ c.key = key

\* A database operation succeeds, or fails while the fault budget lasts.
Outcome(ok) ==
    /\ ~ok => faults < MaxFaults
    /\ faults' = IF ok THEN faults ELSE faults + 1

Quiescent ==
    /\ state \in {"Idle", "Completed"}
    /\ \A i \in RowIdx : pc[i] \in {"wait", "done"}

\* ------------------------------------------------------------- triggers
\* ProductService.importProducts up to its return (41-57): the existence
\* check and the wiring of the stream; the handlers run later, from the
\* event loop.  Runs do not overlap here: a request arrives when the
\* previous run and its row handlers are over.
existsSync_always(f) == TRUE

\* fs.existsSync(filePath), 45-48
existsSync(f) == f.exists

importProducts ==
    /\ Quiescent
    /\ schedule > 0
    /\ schedule' = schedule - 1
    /\ run' = run + 1
    /\ feed' = file.rows
    /\ state' = IF existsSync(file) THEN "Streaming" ELSE "Idle"
    /\ flowing' = existsSync(file)
    /\ pos' = 0
    /\ pc' = [i \in RowIdx |-> "wait"]
    /\ loc' = [i \in RowIdx |-> NoLoc]
    /\ batch' = <<>>
    /\ importedProductIds' = {}
    /\ ops' = [c \in RowIdx \cup {0} |-> <<>>]
    /\ nin' = {}
    /\ productsToDelete' = {}
    /\ result' = [i \in RowIdx |-> "none"]
    /\ flushed' = {}
    /\ flagged' = {}
    /\ reconciled' = FALSE
    /\ startDb' = [products |-> products, vendors |-> vendors,
                   manufacturers |-> manufacturers]
    /\ log' = {}
    /\ rejected' = {}

\* ImportController.triggerImport: await importProducts(), then the payload.
triggerImport ==
    /\ importProducts
    /\ ack' = TRUE
    /\ UNCHANGED << deleteFlag, file, products, vendors, manufacturers, faults,
                    enh, drafted >>

\* ------------------------------------------------- the 'data' handler
startPc_accept(i) == "vFind"

\* Lines 59-69: readStream.pause(), the ManufacturerName check, and the call
\* of transformRow up to its first await (the findOne of getVendorId).
startPc(i) == IF feed[i].ManufacturerName = "" THEN "done" ELSE "vFind"

\* The parser emits the rows of one chunk of the file back to back; each
\* 'data' handler runs up to its first await before the next row is emitted.
\* pause() and resume() are not counted: the last call decides.
OnData ==
    \E k \in RowIdx :
        /\ state = "Streaming"
        /\ flowing
        /\ pos + k <= Len(feed)
        /\ pos' = pos + k
        /\ pc' = [i \in RowIdx |->
                    IF i > pos /\ i <= pos + k THEN startPc(i) ELSE pc[i]]
        /\ result' = [i \in RowIdx |->
                    IF i > pos /\ i <= pos + k /\ startPc(i) = "done"
                    THEN "skipNoMfr" ELSE result[i]]
        /\ loc' = [i \in RowIdx |->
                    IF i > pos /\ i <= pos + k /\ startPc(i) # "done"
                    THEN [loc[i] EXCEPT !.seen =
                            seenBefore("vendor", feed[i].ManufacturerID)]
                    ELSE loc[i]]
        /\ flowing' = (startPc(pos + k) = "done")
        /\ UNCHANGED << deleteFlag, file, products, vendors, manufacturers,
                        schedule, run, state, feed, batch, importedProductIds, ops,
                        nin, productsToDelete, ack, faults, flushed, flagged,
                        reconciled, startDb, log, rejected, enh, drafted >>

RowFails_paused(i) ==
    /\ pc' = [pc EXCEPT ![i] = "done"]
    /\ result' = [result EXCEPT ![i] = "failed"]
    /\ UNCHANGED flowing

\* catch (84-85) and finally (86-88) of the 'data' handler after a throw
RowFails(i) ==
    /\ pc' = [pc EXCEPT ![i] = "done"]
    /\ result' = [result EXCEPT ![i] = "failed"]
    /\ flowing' = TRUE

LogEntry(svc, i, id, created) ==
    [svc |-> svc, row |-> i, key |-> feed[i].ManufacturerID,
     name |-> feed[i].ManufacturerName, id |-> id, seen |-> loc[i].seen,
     created |-> created]

newVendor_keyed(newVendorId, manufacturerName) ==
    [id |-> newVendorId + 1, name |-> manufacturerName]

\* new this.vendorModel({vendorId: newVendorId, name: manufacturerName})
newVendor(newVendorId, manufacturerName) ==
    [id |-> newVendorId, name |-> manufacturerName]

\* new this.manufacturerModel({manufacturerId: newManufacturerId, name: manufacturerName})
newManufacturer(newManufacturerId, manufacturerName) ==
    [id |-> newManufacturerId, name |-> manufacturerName]

\* VendorService.getVendorId, 24-31: findOne returns; a record is returned
\* with its id, and getManufacturerId is called (117).
getVendorId_find(i) ==
    /\ pc[i] = "vFind"
    /\ LET found == findOne(vendors, toString(feed[i].ManufacturerID))
       IN  IF found # {}
           THEN LET id == (CHOOSE rec \in found : TRUE).id
                IN  /\ pc' = [pc EXCEPT ![i] = "mFind"]
                    /\ loc' = [loc EXCEPT ![i].vendorId = id,
                                 ![i].seen = seenBefore("manufacturer", feed[i].ManufacturerID)]
                    /\ log' = log \cup { LogEntry("vendor", i, id, FALSE) }
           ELSE /\ pc' = [pc EXCEPT ![i] = "vSave"]
                /\ UNCHANGED << loc, log >>
    /\ UNCHANGED << deleteFlag, file, products, vendors, manufacturers,
                    schedule, run, state, feed, pos, flowing, batch,
                    importedProductIds, ops, nin, productsToDelete, ack,
                    faults, result, flushed, flagged, reconciled, startDb,
                    rejected, enh, drafted >>

getVendorId_save_atomic(i) ==
    /\ pc[i] = "vSave"
    /\ LET prior == { c \in log : c.svc = "vendor"
                                  /\ c.key = feed[i].ManufacturerID }
           id == IF prior = {} THEN nanoid(run, i, 2)
                 ELSE (CHOOSE c \in prior : TRUE).id
       IN  /\ vendors' = vendors \cup { newVendor(id, feed[i].ManufacturerName) }
           /\ pc' = [pc EXCEPT ![i] = "mFind"]
           /\ loc' = [loc EXCEPT ![i].vendorId = id,
                        ![i].seen = seenBefore("manufacturer", feed[i].ManufacturerID)]
           /\ log' = log \cup { LogEntry("vendor", i, id, prior = {}) }
    /\ UNCHANGED << deleteFlag, file, products, manufacturers, schedule, run,
                    state, feed, pos, flowing, batch, importedProductIds, ops,
                    nin, productsToDelete, ack, faults, result, flushed,
                    flagged, reconciled, startDb, rejected, enh, drafted >>

\* VendorService.getVendorId, 31-44: vendor.save() returns or throws.
getVendorId_save(i) ==
    /\ pc[i] = "vSave"
    /\ \E ok \in BOOLEAN :
         /\ Outcome(ok)
         /\ IF ok
            THEN LET id == nanoid(run, i, 2)
                 IN  /\ vendors' = vendors \cup
                           { newVendor(id, feed[i].ManufacturerName) }
                     /\ pc' = [pc EXCEPT ![i] = "mFind"]
                     /\ loc' = [loc EXCEPT ![i].vendorId = id,
                                  ![i].seen = seenBefore("manufacturer", feed[i].ManufacturerID)]
                     /\ log' = log \cup { LogEntry("vendor", i, id, TRUE) }
                     /\ UNCHANGED << result, flowing >>
            ELSE /\ RowFails(i)
                 /\ UNCHANGED << vendors, loc, log >>
    /\ UNCHANGED << deleteFlag, file, products, manufacturers, schedule, run,
                    state, feed, pos, batch, importedProductIds, ops, nin,
                    productsToDelete, ack, flushed, flagged, reconciled,
                    startDb, rejected, enh, drafted >>

\* ManufacturerService.getManufacturerId, 24-31.
getManufacturerId_find(i) ==
    /\ pc[i] = "mFind"
    /\ LET found == findOne(manufacturers, toString(feed[i].ManufacturerID))
       IN  IF found # {}
           THEN LET id == (CHOOSE rec \in found : TRUE).id
                IN  /\ pc' = [pc EXCEPT ![i] = "enhance"]
                    /\ loc' = [loc EXCEPT ![i].manufacturerId = id]
                    /\ log' = log \cup { LogEntry("manufacturer", i, id, FALSE) }
           ELSE /\ pc' = [pc EXCEPT ![i] = "mSave"]
                /\ UNCHANGED << loc, log >>
    /\ UNCHANGED << deleteFlag, file, products, vendors, manufacturers,
                    schedule, run, state, feed, pos, flowing, batch,
                    importedProductIds, ops, nin, productsToDelete, ack,
                    faults, result, flushed, flagged, reconciled, startDb,
                    rejected, enh, drafted >>

\* ManufacturerService.getManufacturerId, 31-44.
getManufacturerId_save(i) ==
    /\ pc[i] = "mSave"
    /\ \E ok \in BOOLEAN :
         /\ Outcome(ok)
         /\ IF ok
            THEN LET id == nanoid(run, i, 3)
                 IN  /\ manufacturers' = manufacturers \cup
                           { newManufacturer(id, feed[i].ManufacturerName) }
                     /\ pc' = [pc EXCEPT ![i] = "enhance"]
                     /\ loc' = [loc EXCEPT ![i].manufacturerId = id]
                     /\ log' = log \cup { LogEntry("manufacturer", i, id, TRUE) }
                     /\ UNCHANGED << result, flowing >>
            ELSE /\ RowFails(i)
                 /\ UNCHANGED << manufacturers, loc, log >>
    /\ UNCHANGED << deleteFlag, file, products, vendors, schedule, run, state,
                    feed, pos, batch, importedProductIds, ops, nin,
                    productsToDelete, ack, flushed, flagged, reconciled,
                    startDb, rejected, enh, drafted >>

\* ProductService.transformRow, 110-169: the draft (the fields the
\* orchestrator and the store read).
transformRow(i) ==
    [docId |-> nanoid(run, i, 1), name |-> feed[i].ProductName,
     vendorId |-> loc[i].vendorId, manufacturerId |-> loc[i].manufacturerId]

\* enhanceDescription returns (it never throws) and transformRow returns;
\* then lines 71-88 of the 'data' handler, up to the await of upsertBatch,
\* whose bulkOps (177-183) are built from the batch as it is at the call.
OnData_transformed(i) ==
    /\ pc[i] = "enhance"
    /\ LET transformedData == transformRow(i)
       IN  IF transformedData.name = ""
           THEN /\ pc' = [pc EXCEPT ![i] = "done"]
                /\ result' = [result EXCEPT ![i] = "skipNoName"]
                /\ flowing' = TRUE
                /\ UNCHANGED << batch, importedProductIds, ops, flushed >>
           ELSE /\ batch' = Append(batch, transformedData)
                /\ importedProductIds' = importedProductIds \cup {transformedData.name}
                /\ result' = [result EXCEPT ![i] = "pushed"]
                /\ IF Len(batch') >= batchSize
                   THEN /\ pc' = [pc EXCEPT ![i] = "flush"]
                        /\ ops' = [ops EXCEPT ![i] = batch']
                        /\ flushed' = flushed \cup docIds(batch')
                        /\ UNCHANGED flowing
                   ELSE /\ pc' = [pc EXCEPT ![i] = "done"]
                        /\ flowing' = TRUE
                        /\ UNCHANGED << ops, flushed >>
    /\ UNCHANGED << deleteFlag, file, products, vendors, manufacturers,
                    schedule, run, state, feed, pos, loc, nin,
                    productsToDelete, ack, faults, flagged, reconciled,
                    startDb, log, rejected, enh, drafted >>

\* The outcomes of one bulk write: every item applied, or (a fault) some
\* items not applied.
BulkOutcome(bulkOps, applied) ==
    /\ applied \in SUBSET (1..Len(bulkOps))
    /\ Outcome(applied = 1..Len(bulkOps))

\* upsertBatch called from the 'data' handler returns (185-190: a failing
\* bulkWrite is logged, not raised); then `batch = []` (82) and resume (87).
OnData_flushed(i) ==
    /\ pc[i] = "flush"
    /\ \E applied \in SUBSET (1..Len(ops[i])) :
         /\ BulkOutcome(ops[i], applied)
         /\ products' = bulkWrite(products, ops[i], applied, 1)
         /\ rejected' = IF applied = 1..Len(ops[i]) THEN rejected
                        ELSE rejected \cup docIds(ops[i])
    /\ batch' = <<>>
    /\ ops' = [ops EXCEPT ![i] = <<>>]
    /\ pc' = [pc EXCEPT ![i] = "done"]
    /\ flowing' = TRUE
    /\ UNCHANGED << deleteFlag, file, vendors, manufacturers, schedule, run,
                    state, feed, pos, loc, importedProductIds, nin,
                    productsToDelete, ack, result, flushed, flagged,
                    reconciled, startDb, log, enh, drafted >>

\* -------------------------------------------------- the 'end' handler
\* Lines 94-97 and 197-204: with the flag set, handleDeletions is called and
\* runs up to the await of find(), whose $nin list is built at the call.
AfterFinalFlush ==
    IF deleteFlag
    THEN /\ state' = "Finding"
         /\ nin' = importedProductIds
    ELSE /\ state' = "Completed"
         /\ UNCHANGED nin

\* The read stream has delivered its last chunk and is flowing, so it ends
\* and the parser emits 'end' (90-93): the handler runs up to the await of
\* upsertBatch, or past it when the batch is empty.
OnEnd ==
    /\ state = "Streaming"
    /\ flowing
    /\ pos = Len(feed)
    /\ IF Len(batch) > 0
       THEN /\ state' = "Flushing"
            /\ ops' = [ops EXCEPT ![0] = batch]
            /\ flushed' = flushed \cup docIds(batch)
            /\ UNCHANGED nin
       ELSE /\ AfterFinalFlush
            /\ UNCHANGED << ops, flushed >>
    /\ UNCHANGED << deleteFlag, file, products, vendors, manufacturers,
                    schedule, run, feed, pos, flowing, pc, loc, batch,
                    importedProductIds, productsToDelete, ack, faults, result,
                    flagged, reconciled, startDb, log, rejected, enh, drafted >>

\* upsertBatch called from the 'end' handler returns (92); the batch is not
\* cleared here.
OnEnd_flushed ==
    /\ state = "Flushing"
    /\ \E applied \in SUBSET (1..Len(ops[0])) :
         /\ BulkOutcome(ops[0], applied)
         /\ products' = bulkWrite(products, ops[0], applied, 1)
         /\ rejected' = IF applied = 1..Len(ops[0]) THEN rejected
                        ELSE rejected \cup docIds(ops[0])
    /\ ops' = [ops EXCEPT ![0] = <<>>]
    /\ AfterFinalFlush
    /\ UNCHANGED << deleteFlag, file, vendors, manufacturers, schedule, run,
                    feed, pos, flowing, pc, loc, batch, importedProductIds,
                    productsToDelete, ack, result, flushed, flagged,
                    reconciled, startDb, log, enh, drafted >>

findToDelete_in(coll, names) ==
    { p \in coll : p.name \in names /\ p.isDeleted # TRUE }

\* find({'data.name': {$nin: names}, 'data.isDeleted': {$ne: true}})
findToDelete(coll, names) ==
    { p \in coll : p.name \notin names /\ p.isDeleted # TRUE }

\* handleDeletions, 201-204 and 216-218: find() returns the documents, or
\* throws and the reconciliation is given up.
handleDeletions_find ==
    /\ state = "Finding"
    /\ \E ok \in BOOLEAN :
         /\ Outcome(ok)
         /\ IF ok
            THEN LET found == findToDelete(products, nin)
                 IN  /\ productsToDelete' = found
                     /\ state' = IF found = {} THEN "Completed" ELSE "Reconciling"
                     /\ reconciled' = (found = {})
            ELSE /\ state' = "Completed"
                 /\ UNCHANGED << productsToDelete, reconciled >>
    /\ UNCHANGED << deleteFlag, file, products, vendors, manufacturers,
                    schedule, run, feed, pos, flowing, pc, loc, batch,
                    importedProductIds, ops, nin, ack, result, flushed,
                    flagged, startDb, log, rejected, enh, drafted >>

\* handleDeletions, 206-218: one round of the loop, for the next document;
\* a save() that throws ends the loop.
handleDeletions_step ==
    /\ state = "Reconciling"
    /\ \E product \in productsToDelete :
         LET rest == productsToDelete \ {product}
             hasOrders == checkExistingOrders(product._id)
         IN  IF ~hasOrders
             THEN \E ok \in BOOLEAN :
                    /\ Outcome(ok)
                    /\ IF ok
                       THEN /\ products' = saveDeleted(products, product._id)
                            /\ flagged' = flagged \cup {product.name}
                            /\ productsToDelete' = rest
                            /\ state' = IF rest = {} THEN "Completed" ELSE "Reconciling"
                            /\ reconciled' = (rest = {})
                       ELSE /\ state' = "Completed"
                            /\ productsToDelete' = {}
                            /\ UNCHANGED << products, flagged, reconciled >>
             ELSE /\ productsToDelete' = rest
                  /\ state' = IF rest = {} THEN "Completed" ELSE "Reconciling"
                  /\ reconciled' = (rest = {})
                  /\ UNCHANGED << products, flagged, faults >>
    /\ UNCHANGED << deleteFlag, file, vendors, manufacturers, schedule, run,
                    feed, pos, flowing, pc, loc, batch, importedProductIds,
                    ops, nin, ack, result, flushed, startDb, log, rejected,
                    enh, drafted >>

\* ------------------------------------------- the description enhancer
\* enhanceDescription is called (43-50) and awaits the rate limiter.
enhanceDescription_call ==
    /\ enh.pc \in {"idle", "returned"}
    /\ \E name \in {"Gauze", "Tape"}, description \in Descriptions :
         enh' = [EnhIdle EXCEPT !.pc = "limiter", !.name = name,
                                !.category = "Dressings",
                                !.description = description]
    /\ UNCHANGED << deleteFlag, file, products, vendors, manufacturers,
                    schedule, run, state, feed, pos, flowing, pc, loc, batch,
                    importedProductIds, ops, nin, productsToDelete, ack,
                    faults, result, flushed, flagged, reconciled, startDb, log,
                    rejected, drafted >>

\* removeTokens returns or throws (49-54); the prompt and the request are
\* built (56-67) and createCompletion is called (70).
enhanceDescription_limited ==
    /\ enh.pc = "limiter"
    /\ \E limiterError \in BOOLEAN :
         LET next == removeTokens(limiterError)
         IN  enh' = [enh EXCEPT
                       !.pc = next,
                       !.limiterError = limiterError,
                       !.prompt = IF next = "completion"
                                  THEN constructPrompt(enh.name, enh.category,
                                                       enh.description)
                                  ELSE @,
                       !.calls = IF next = "completion" THEN @ + 1 ELSE @]
    /\ UNCHANGED << deleteFlag, file, products, vendors, manufacturers,
                    schedule, run, state, feed, pos, flowing, pc, loc, batch,
                    importedProductIds, ops, nin, productsToDelete, ack,
                    faults, result, flushed, flagged, reconciled, startDb, log,
                    rejected, drafted >>

\* createCompletion returns or throws, and enhanceDescription returns (69-94).
enhanceDescription_completed ==
    /\ enh.pc = "completion"
    /\ \E response \in Responses :
         LET r == enhancedDescription(response, enh.description)
         IN  enh' = [enh EXCEPT !.pc = IF r.raised THEN "raised" ELSE "returned",
                                !.response = response,
                                !.ret = r]
    /\ UNCHANGED << deleteFlag, file, products, vendors, manufacturers,
                    schedule, run, state, feed, pos, flowing, pc, loc, batch,
                    importedProductIds, ops, nin, productsToDelete, ack,
                    faults, result, flushed, flagged, reconciled, startDb, log,
                    rejected, drafted >>

NextEnhancer ==
    \/ enhanceDescription_call
    \/ enhanceDescription_limited
    \/ enhanceDescription_completed

\* ------------------------------------------------- the row transformer
\* transformRow builds the product of a row (128-167): its variants.
transformRow_variants ==
    /\ \E row \in VariantRows :
         drafted' = [done |-> TRUE, row |-> row, variants |-> variants(row)]
    /\ UNCHANGED << deleteFlag, file, products, vendors, manufacturers,
                    schedule, run, state, feed, pos, flowing, pc, loc, batch,
                    importedProductIds, ops, nin, productsToDelete, ack,
                    faults, result, flushed, flagged, reconciled, startDb, log,
                    rejected, enh >>

NextTransformer == transformRow_variants

\* ---------------------------------------------------------- specification
Next ==
    \/ triggerImport
    \/ OnData
    \/ \E i \in RowIdx : getVendorId_find(i)
    \/ \E i \in RowIdx : getVendorId_save(i)
    \/ \E i \in RowIdx : getManufacturerId_find(i)
    \/ \E i \in RowIdx : getManufacturerId_save(i)
    \/ \E i \in RowIdx : OnData_transformed(i)
    \/ \E i \in RowIdx : OnData_flushed(i)
    \/ OnEnd
    \/ OnEnd_flushed
    \/ handleDeletions_find
    \/ handleDeletions_step

\* One run of the import, from a database that holds an earlier import.
Spec == Init /\ [][Next]_vars

\* The same file imported twice, from an empty database.
SpecRerun == InitRerun /\ [][Next]_vars

\* The event loop runs a handler that is ready: no run stops half way.
FairSpec == Spec /\ WF_vars(Next)

\* One run with the soft-delete-on-missing toggle not enabled: DELETE_FLAG is
\* not set, or is set to false.
InitToggleOff ==
    \E deleted \in BOOLEAN :
        InitWith(StoredGauze(deleted), 1, {"unset", "false"}, Files)

SpecToggleOff == InitToggleOff /\ [][Next]_vars

\* One run on a file that has one row more than the batch threshold.
InitBatch == InitWith(StoredGauze(FALSE), 1, Env, LongFiles)

SpecBatch == InitBatch /\ [][Next]_vars

\* One run, on the store left by an earlier run, of a file whose rows give
\* the stored manufacturer another name.
InitRenamed == InitWith(StoredGauze(FALSE), 1, Env, RenamedFiles)

SpecRenamed == InitRenamed /\ [][Next]_vars

\* One run, with the reconciliation enabled, of a file with rows to skip;
\* no run stops half way.
InitSkips == InitWith(StoredGauze(FALSE), 1, {"true"}, SkipFiles)

FairSpecSkips == InitSkips /\ [][Next]_vars /\ WF_vars(Next)

\* The enhancer alone: invocations with every description, limiter outcome
\* and response of the service; no import runs.
InitEnhancer ==
    InitWith(EmptyDb, 0, {"unset"}, { [exists |-> FALSE, rows |-> <<>>] })

SpecEnhancer == InitEnhancer /\ [][NextEnhancer]_vars

\* The row transformer alone, on rows with every unit price, packaging,
\* item code and availability.
SpecTransformer == InitEnhancer /\ [][NextTransformer]_vars

\* ================================================================ claims
\* Claims that do not speak of failures are read on what the code does when
\* its database operations succeed; the claims about failures (C9, C11, C17)
\* are read with the faults.

InFlight(i) == pc[i] \notin {"wait", "done"}

\* the run is over: the 'end' handler has finished and so has every row
RunOver ==
    /\ run >= 1
    /\ state = "Completed"
    /\ pos = Len(feed)
    /\ \A i \in RowIdx : ~InFlight(i)

\* C1: at no point are two rows of a run in their 'data' handler at the same
\* time.
C1_RowsSerialized == Cardinality({ i \in RowIdx : InFlight(i) }) <= 1

\* C2: when a run is over, every row that was transformed into a draft with a
\* name has been passed to a bulk upsert of that run.
C2_NoDraftDropped ==
    RunOver => \A i \in 1..Len(feed) :
                  result[i] = "pushed" => nanoid(run, i, 1) \in flushed

\* C3: a resolver call for a natural key for which an earlier call has already
\* returned gives the id that an earlier call gave (stated for the runs in
\* which no database operation fails).
C3_ResolverIdempotent ==
    faults = 0 =>
        \A c \in log :
            c.seen => \E d \in log : /\ d.svc = c.svc
                                     /\ d.key = c.key
                                     /\ d.row # c.row
                                     /\ d.id = c.id

\* C4: a resolver call for a key with no stored record persists exactly one
\* new record, which carries the given display name, and returns the new id
\* of that record; a call whose save fails persists nothing.
Created(svc) == { c \in log : c.svc = svc /\ c.created }

CreatesOne(svc, coll, before) ==
    /\ coll = before \cup { [id |-> c.id, name |-> c.name] : c \in Created(svc) }
    /\ Cardinality(coll) = Cardinality(before) + Cardinality(Created(svc))
    /\ \A c \in Created(svc) : \A rec \in before : rec.id # c.id

C4_ResolverCreates ==
    /\ CreatesOne("vendor", vendors, startDb.vendors)
    /\ CreatesOne("manufacturer", manufacturers, startDb.manufacturers)

C4_Witness ==
    \E c \in log : /\ c.svc = "vendor" /\ c.created /\ ~c.seen
                   /\ [id |-> c.id, name |-> "Acme"] \in vendors
                   /\ [id |-> c.id, name |-> "Acme"] \notin startDb.vendors

\* C5: the second run of an identical feed, with no database fault in either
\* run, leaves the number of product records unchanged, and no name is
\* stored twice.
C5_RerunKeepsCount ==
    /\ \A p, q \in products : p.name = q.name => p = q
    /\ (run = 2 /\ faults = 0) =>
           Cardinality(products) = Cardinality(startDb.products)

\* C6: with reconciliation enabled, a product that was stored and not flagged
\* when the run began and whose name no row of the feed carries is, when the
\* reconciliation has gone through, flagged deleted if the order check
\* reports no orders and unflagged if it reports orders.
NameInFeed(name) == \E i \in 1..Len(feed) : feed[i].ProductName = name

C6_AbsentProductFlagged ==
    (run >= 1 /\ deleteFlag /\ state = "Completed" /\ reconciled) =>
        \A p \in startDb.products :
            (~p.isDeleted /\ ~NameInFeed(p.name)) =>
                \E q \in products : /\ q._id = p._id
                                    /\ q.isDeleted = ~checkExistingOrders(p._id)

C6_Witness ==
    /\ deleteFlag /\ state = "Completed" /\ reconciled
    /\ Len(feed) > 0
    /\ \E p \in startDb.products :
         /\ ~p.isDeleted /\ ~NameInFeed(p.name)
         /\ p.name \in flagged
         /\ \E q \in products : q._id = p._id /\ q.isDeleted

\* C7: the reconciliation of a run never flags a product whose name is carried
\* by a row of that run that is transformed successfully.
C7_ImportedNeverFlagged ==
    \A i \in 1..Len(feed) :
        result[i] = "pushed" => feed[i].ProductName \notin flagged

\* C8: the acknowledgement of POST /import is returned only when the run it
\* triggered is over.
C8_AckAfterRun == ack => Quiescent

\* C9: a row whose processing fails is discarded (its draft reaches neither
\* the batch nor a bulk upsert, and the failing step adds nothing to the batch
\* or to the imported names), and the run still handles every row of the feed
\* and completes.
FailedRowDiscarded ==
    \A i \in RowIdx :
        result[i] = "failed" =>
            /\ nanoid(run, i, 1) \notin docIds(batch)
            /\ nanoid(run, i, 1) \notin flushed
            /\ \A p \in products : p.docId # nanoid(run, i, 1)

FailureStep ==
    (\E i \in RowIdx : result[i] # "failed" /\ result'[i] = "failed") =>
        /\ batch' = batch
        /\ importedProductIds' = importedProductIds

SomeRowFailed == \E i \in RowIdx : result[i] = "failed"

C9_RowErrorNonFatal ==
    /\ []FailedRowDiscarded
    /\ [][FailureStep]_vars
    /\ (SomeRowFailed ~> RunOver)

C9_Witness ==
    /\ RunOver
    /\ result[1] = "failed"
    /\ Len(feed) = 2
    /\ result[2] = "pushed"
    /\ nanoid(run, 2, 1) \in flushed

\* C10: when the source file is absent the run is a no-op: no row is
\* processed, no resolver or enhancer is called, nothing is upserted or
\* flagged, and the three collections are as they were.
C10_MissingFileNoOp ==
    (run >= 1 /\ ~file.exists) =>
        /\ state = "Idle"
        /\ pos = 0
        /\ \A i \in RowIdx : pc[i] = "wait" /\ result[i] = "none"
        /\ log = {} /\ flushed = {} /\ flagged = {}
        /\ batch = <<>> /\ importedProductIds = {}
        /\ products = startDb.products
        /\ vendors = startDb.vendors
        /\ manufacturers = startDb.manufacturers

C10_Witness ==
    /\ run >= 1 /\ ~file.exists /\ ack
    /\ deleteFlag
    /\ \E p \in products : ~p.isDeleted


\* C11: a row without a manufacturer name, or whose draft has no product
\* name, is rejected and nothing more: its draft reaches neither the batch nor
\* a bulk upsert nor the store, finishing it adds nothing to the batch, to
\* the imported names or to a bulk upsert, and the run goes on to handle every
\* row and to complete.
Rejected(i) ==
    /\ i <= Len(feed)
    /\ feed[i].ManufacturerName = "" \/ feed[i].ProductName = ""

RejectedRowKept ==
    /\ "" \notin importedProductIds
    /\ \A i \in RowIdx :
         Rejected(i) =>
            /\ nanoid(run, i, 1) \notin docIds(batch)
            /\ nanoid(run, i, 1) \notin flushed
            /\ \A p \in products : p.docId # nanoid(run, i, 1)
            /\ result[i] \in {"none", "skipNoMfr", "skipNoName", "failed"}

RejectStep ==
    (\E i \in RowIdx : Rejected(i) /\ pc[i] # "done" /\ pc'[i] = "done") =>
        /\ batch' = batch
        /\ importedProductIds' = importedProductIds
        /\ products' = products
        /\ ops' = ops

SomeRowRejected ==
    \E i \in RowIdx : result[i] \in {"skipNoMfr", "skipNoName"}

C11_SkipRowNonFatal ==
    /\ []RejectedRowKept
    /\ [][RejectStep]_vars
    /\ (SomeRowRejected ~> RunOver)

C11_Witness ==
    /\ RunOver
    /\ Len(feed) = 2
    /\ result[1] = "skipNoName"
    /\ result[2] = "pushed"
    /\ \E p \in products : p.docId = nanoid(run, 2, 1)

\* C12: when the completion call fails or returns no choices, the invocation
\* returns the description it was given, or the empty string when it was
\* given none.
NoChoices(response) ==
    \/ response.threw
    \/ ~response.data
    \/ ~response.choices
    \/ Len(response.items) = 0

C12_EnhancerFallback ==
    (enh.pc = "returned" /\ NoChoices(enh.response)) =>
        /\ ~enh.ret.raised
        /\ enh.ret.value = IF enh.description = undefined
                           THEN <<>> ELSE enh.description

C12_Witness ==
    /\ enh.pc = "returned"
    /\ enh.response.threw
    /\ enh.description = Soft
    /\ enh.ret.value = Soft

\* C18: an invocation of the enhancer never raises: whatever the limiter and
\* the service do, it returns a string, and it has made exactly one completion
\* call, also when the limiter failed.
Chars == { " ", "S", "o", "f", "t", "N", "e", "w" }

IsString(v) == \A k \in 1..Len(v) : v[k] \in Chars

C18_EnhancerNeverRaises ==
    /\ enh.pc # "raised"
    /\ enh.pc = "completion" => enh.calls = 1
    /\ enh.pc = "returned" =>
          /\ ~enh.ret.raised
          /\ IsString(enh.ret.value)
          /\ enh.calls = 1

C18_Witness ==
    /\ enh.pc = "returned"
    /\ enh.limiterError
    /\ enh.response.threw
    /\ enh.calls = 1
    /\ enh.ret.value = <<>>

\* C13: the draft of a row with a manufacturer name and a product name has
\* exactly one variant; its cost is the number written in UnitPrice and its
\* price that number times 1.2, both 0 when UnitPrice starts with no number;
\* its sku is ManufacturerItemCode followed by PKG (for a row that has both
\* columns), and it is available exactly when Availability is "Available".
PriceCaseOf(row) == CHOOSE c \in PriceCases : c.text = row.UnitPrice

C13_VariantOfRow ==
    drafted.done =>
        LET row == drafted.row
            c == PriceCaseOf(row)
            v == drafted.variants[1]
        IN  /\ Len(drafted.variants) = 1
            /\ NumEq(v.cost, Num(c.cost, 3))
            /\ NumEq(v.price, Num(c.price, 3))
            /\ 10 * c.price = 12 * c.cost
            /\ ~c.numeric => v.cost = Num(0, 0) /\ v.price = Num(0, 0)
            /\ (row.ManufacturerItemCode # undefined /\ row.PKG # undefined) =>
                   /\ Len(v.sku) = Len(row.ManufacturerItemCode) + Len(row.PKG)
                   /\ SubSeq(v.sku, 1, Len(row.ManufacturerItemCode))
                        = row.ManufacturerItemCode
                   /\ SubSeq(v.sku, Len(row.ManufacturerItemCode) + 1, Len(v.sku))
                        = row.PKG
            /\ v.available <=> (row.Availability # undefined
                                /\ row.Availability = Available)

\* the example of the specification: 2.50, GZ1, BX, Available
C13_Witness ==
    /\ drafted.done
    /\ drafted.row = VariantRow(<< "2", ".", "5", "0" >>, BX, GZ1, Available)
    /\ NumEq(drafted.variants[1].price, Num(300, 2))
    /\ drafted.variants[1].sku = << "G", "Z", "1", "B", "X" >>
    /\ drafted.variants[1].available

\* C14: in a run with the toggle not enabled no product is flagged deleted:
\* every product stored when the run began, unless the run upserts a row with
\* its name, is stored with the deleted flag it had.
Upserted(name) ==
    \E i \in 1..Len(feed) : /\ feed[i].ProductName = name
                            /\ nanoid(run, i, 1) \in flushed

C14_ToggleOffNeverFlags ==
    /\ flagged = {}
    /\ \A p \in startDb.products :
         ~Upserted(p.name) =>
             \E q \in products : q._id = p._id /\ q.isDeleted = p.isDeleted

\* C15: the batch in memory never holds more drafts than the threshold, and no
\* bulk upsert carries more items than the threshold.
C15_BatchBounded ==
    /\ Len(batch) <= batchSize
    /\ \A c \in DOMAIN ops : Len(ops[c]) <= batchSize

\* C16: no step of a run, on the store an earlier run left, removes a
\* record: a stored product stays stored
\* under its _id and name (it is overwritten or flagged, not removed), and a
\* stored vendor or manufacturer record stays as it is, id and display name,
\* also when a row carries its natural key with another name.
RecordsKept ==
    /\ \A p \in products : \E q \in products' : q._id = p._id /\ q.name = p.name
    /\ vendors \subseteq vendors'
    /\ manufacturers \subseteq manufacturers'

C16_ReferenceDataKept == [][RecordsKept]_vars

C16_Witness ==
    /\ RunOver
    /\ "Gauze" \in flagged
    /\ \E p \in products : p._id = nanoid(0, 1, 1) /\ p.isDeleted
    /\ \E c \in log : c.svc = "vendor" /\ c.key = 77 /\ c.name = "Apex"
    /\ [id |-> nanoid(0, 1, 2), name |-> "Acme"] \in vendors
    /\ [id |-> nanoid(0, 1, 3), name |-> "Acme"] \in manufacturers

\* C17: a bulk write that fails is not fatal and not retried: the handler
\* that awaited it goes on as after a success (the row stays imported, the
\* stream is resumed, the 'end' handler goes on to the reconciliation), and
\* no draft that a failed bulk write carried is passed to a later bulk write.
BulkFailed(c) == faults' = faults + 1 /\ ops[c] # <<>> /\ ops'[c] = <<>>

BulkFailureNotRaised ==
    /\ \A i \in RowIdx :
         BulkFailed(i) => /\ pc'[i] = "done"
                          /\ result'[i] = "pushed"
                          /\ batch' = <<>>
                          /\ flowing'
    /\ BulkFailed(0) => state' \in {"Finding", "Completed"}

BulkIssued(c) == ops[c] = <<>> /\ ops'[c] # <<>>

NotResubmitted ==
    \A c \in DOMAIN ops : BulkIssued(c) => docIds(ops'[c]) \cap rejected = {}

C17_BulkFailureNotRetried == [][BulkFailureNotRaised /\ NotResubmitted]_vars

\* C19: resolution is not atomic: two resolve calls for the same natural key
\* that interleave (neither had returned when the other was made) and have
\* both returned have each persisted a record of its own and have returned
\* different ids; and such a state is reached.
Interleaved(c, d) ==
    /\ c.svc = d.svc /\ c.key = d.key /\ c.row # d.row
    /\ ~c.seen /\ ~d.seen

Stored(c) ==
    [id |-> c.id, name |-> c.name] \in
        (IF c.svc = "vendor" THEN vendors ELSE manufacturers)

C19_ResolutionNotAtomic ==
    \A c, d \in log :
        Interleaved(c, d) =>
            /\ c.id # d.id
            /\ c.created /\ d.created
            /\ Stored(c) /\ Stored(d)

C19_Witness ==
    \E c, d \in log :
        /\ Interleaved(c, d)
        /\ c.svc = "vendor" /\ c.key = 77
        /\ c.created /\ d.created
        /\ c.id # d.id
        /\ Stored(c) /\ Stored(d)
        /\ Cardinality(vendors) = Cardinality(startDb.vendors) + 2

\* C20: a product that was flagged deleted when the run began and whose name
\* is carried by a row that the run upserts (no database operation of the run
\* failing) is, when the run is over, stored not flagged deleted.
C20_ReimportRevives ==
    (RunOver /\ faults = 0) =>
        \A p \in startDb.products :
            (p.isDeleted /\ Upserted(p.name)) =>
                \E q \in products : q.name = p.name /\ ~q.isDeleted
====
